---- MODULE Spec2Model ----
(***************************************************************************)
(* bulk-jxl: src/main.rs.  The main task validates the two directories,    *)
(* collects the files, optionally asks for confirmation, spawns one tokio  *)
(* task per file on a JoinSet, every task first acquiring a permit of a    *)
(* Semaphore of `jobs` permits, and then joins the tasks one by one,       *)
(* folding each task's output into the counters printed by the summary.    *)
(***************************************************************************)
EXTENDS Integers, Sequences, FiniteSets, TLC

(***************************************************************************)
(* Bounds of the model.                                                    *)
(***************************************************************************)
\* The input directory holds a subset of the files 1..MaxFiles of FileTable.
MaxFiles == 3
\* The jobs option ranges over 0..MaxJobs.
MaxJobs == 2

(***************************************************************************)
(* The files the walk can yield: path relative to the input root (dir,     *)
(* stem, extension as a sequence of characters), the length of the file    *)
(* and the length of the file the converter writes for it.                 *)
(***************************************************************************)
FileTable ==
  << [dir |-> "",    stem |-> "a", ext |-> <<"p","n","g">>,     len |-> 3, jxl |-> 1],
     [dir |-> "",    stem |-> "a", ext |-> <<"J","P","G">>,     len |-> 2, jxl |-> 4],
     [dir |-> "",    stem |-> "b", ext |-> <<"t","x","t">>,     len |-> 1, jxl |-> 1],
     [dir |-> "",    stem |-> "c", ext |-> <<"p","n","g">>,     len |-> 5, jxl |-> 2],
     [dir |-> "sub", stem |-> "a", ext |-> <<"g","i","f">>,     len |-> 2, jxl |-> 1],
     [dir |-> "",    stem |-> "e", ext |-> <<"b","m","p">>,     len |-> 6, jxl |-> 2],
     [dir |-> "",    stem |-> "f", ext |-> <<"w","e","b","p">>, len |-> 4, jxl |-> 3],
     [dir |-> "",    stem |-> "g", ext |-> <<>>,                len |-> 1, jxl |-> 1] >>

AllFiles == 1..Len(FileTable)
Universe == 1..MaxFiles

\* The two scenarios of the specification's section 8.
ScenarioFiles == {1, 3, 4}
Cap1Files == {1, 4, 5, 6, 7}

ACCEPTED_EXTENSIONS ==
  { "jpg", "jpeg", "jpe", "jif", "jfif", "jfi", "png", "webp", "gif", "bmp",
    "dib", "ppm", "pgm", "pam", "tif", "tiff", "tga", "icb", "vda", "vst",
    "dds", "exr", "hdr", "pic", "ico", "fits", "pix", "brender_pix", "j2k",
    "jp2", "jpt", "jls", "pbm", "pcx", "pfm", "pgmyuv", "pgx", "phm", "pcd",
    "pct", "pict", "psd", "qdraw", "qoi", "sgi", "ras", "vbn", "xbm", "xpm",
    "xwd" }

(***************************************************************************)
(* str::to_lowercase on the characters of an extension.                    *)
(***************************************************************************)
UpperChars == <<"A","B","C","D","E","F","G","H","I","J","K","L","M",
                "N","O","P","Q","R","S","T","U","V","W","X","Y","Z">>
LowerChars == <<"a","b","c","d","e","f","g","h","i","j","k","l","m",
                "n","o","p","q","r","s","t","u","v","w","x","y","z">>

LowerChar(c) ==
  IF \E i \in 1..Len(UpperChars) : UpperChars[i] = c
  THEN LowerChars[CHOOSE i \in 1..Len(UpperChars) : UpperChars[i] = c]
  ELSE c

RECURSIVE Concat(_)
Concat(cs) == IF cs = <<>> THEN "" ELSE Head(cs) \o Concat(Tail(cs))

to_lowercase(cs) == Concat([i \in 1..Len(cs) |-> LowerChar(cs[i])])

\* file.extension().and_then(OsStr::to_str).unwrap_or("").to_lowercase()
file_extension(f) == to_lowercase(FileTable[f].ext)

\* ACCEPTED_EXTENSIONS.contains(&file_extension.as_str())
AcceptedFiles == {f \in AllFiles : file_extension(f) \in ACCEPTED_EXTENSIONS}
IsAccepted(f) == f \in AcceptedFiles

(***************************************************************************)
(* Destinations.  A path below the output root is (dir, stem, extension).  *)
(***************************************************************************)
\* output_base_path.join(relative_path).with_extension("jxl")
ConvertDest(f) ==
  [dir |-> FileTable[f].dir, stem |-> FileTable[f].stem, ext |-> "jxl"]

\* output_base_path.join(relative_path)
ExtensionText == [f \in AllFiles |-> Concat(FileTable[f].ext)]

CopyDest(f) ==
  [dir |-> FileTable[f].dir, stem |-> FileTable[f].stem, ext |-> ExtensionText[f]]

\* The one path of the output tree the unit of file f looks at and writes.
UsedDest(f) == IF IsAccepted(f) THEN ConvertDest(f) ELSE CopyDest(f)

\* The paths of the output tree a run over the given files looks at.
Dests(files) == {UsedDest(f) : f \in files}

\* The contents of a path of the output tree: nothing, a file that was
\* there before the first run, or what the unit of a source file wrote,
\* named by the source.
Absent == "absent"
Old == "old"
SourceNames ==
  [f \in AllFiles |->
     FileTable[f].dir \o "/" \o FileTable[f].stem \o "." \o ExtensionText[f]]
Written(f) == SourceNames[f]

(***************************************************************************)
(* Task outputs: Result<anyhow::Result<ProcessResult>, JoinError>.         *)
(*   Converted, Copied, Skipped, Error : Ok(Ok(ProcessResult::..))         *)
(*   Err   : Ok(Err(anyhow::Error))  (an early `?` return)                 *)
(*   Panic : Err(JoinError)          (the task panicked)                   *)
(***************************************************************************)
NoResult == [kind |-> "None", original_size |-> 0, converted_size |-> 0]
Res(k) == [kind |-> k, original_size |-> 0, converted_size |-> 0]
Converted(o, c) == [kind |-> "Converted", original_size |-> o, converted_size |-> c]

(***************************************************************************)
(* What the environment does to the unit of one file: "ok", or the step    *)
(* that fails.  "any" leaves the choice to each step.                      *)
(*   mkdir : create_dir_all fails                                          *)
(*   panic : Command::spawn fails (ffmpeg cannot be started)               *)
(*   exit  : ffmpeg exits with a failure status (or wait fails)            *)
(*   post  : ffmpeg succeeds, then metadata / set_file_mtime fails         *)
(*   copy  : tokio::fs::copy fails                                         *)
(***************************************************************************)
EnvResults == {"ok", "mkdir", "panic", "exit", "post", "copy"}
\* What can fail before the converter or the copy runs, in convert_image
\* once ffmpeg runs, and in the copy.
BeginResults == {"ok", "mkdir", "panic"}
ConvertResults == {"ok", "exit", "post"}
CopyResults == {"ok", "copy"}
EnvChoices(e, stage) == IF e = "any" THEN stage ELSE {e}

\* The outcome of the specification a task output stands for.
Outcome(r) == IF r.kind \in {"Error", "Err", "Panic"} THEN "Failed" ELSE r.kind

VARIABLES
  args,              \* Args: jobs, copy_all, yes
  inputState,        \* the input path: "dir", "missing", "file"
  outputState,       \* the output path: "dir", "absent", "file", "uncreatable"
  inDir,             \* the files the walk of the input directory yields
  fs,                \* the output tree: Dests -> Absent, Old or Written(f)
  env,               \* the environment's behaviour per file
  pc,                \* where main is
  files_to_process,  \* the collected files
  task,              \* per file: the state of its spawned task
  result,            \* per file: the output of its task
  permits,           \* available permits of the semaphore
  totals,            \* the counters of main
  report,            \* what the summary printed
  invoked,           \* per file: converter processes spawned by its task
  mkdirs,            \* per file: create_dir_all calls of its task
  observed,          \* per file: times join_next returned its output
  asked,             \* times the confirmation prompt was shown
  run,               \* 1 in the first run over the directories, 2 in the second
  flip,              \* second run of a replay: the file made to fail, or 0
  fsStart,           \* the output tree when the current run started
  prev               \* outcomes and totals of the previous run

vars == << args, inputState, outputState, inDir, fs, env, pc, files_to_process,
           task, result, permits, totals, report, invoked, mkdirs, observed,
           asked, run, flip, fsStart, prev >>

ZeroTotals ==
  [completed_count |-> 0, converted_count |-> 0, copied_count |-> 0,
   skipped_count |-> 0, error_count |-> 0,
   total_original_size |-> 0, total_converted_size |-> 0]

NoPrev == [outcome |-> << >>, totals |-> ZeroTotals, mode |-> "none"]

NoReport == [printed |-> FALSE, totals |-> ZeroTotals, saved |-> 0]

Tasks(st) == {f \in inDir : task[f] = st}
\* The units that hold a permit and are inside their execution step.
Active == {f \in inDir : task[f] \in {"running", "converting", "copying"}}
\* The units whose converter process is running.
Converting == Tasks("converting")

(***************************************************************************)
(* The initial states: those of a process that has parsed its arguments.   *)
(***************************************************************************)
OutputTrees(files) ==
  {[d \in Dests(files) |-> IF d \in S THEN Old ELSE Absent] :
     S \in SUBSET Dests(files)}

InitRun ==
  /\ pc = "start"
  /\ files_to_process = {}
  /\ task = [f \in inDir |-> "none"]
  /\ result = [f \in inDir |-> NoResult]
  /\ permits = 0
  /\ totals = ZeroTotals
  /\ report = NoReport
  /\ invoked = [f \in inDir |-> 0]
  /\ mkdirs = [f \in inDir |-> 0]
  /\ observed = [f \in inDir |-> 0]
  /\ asked = 0
  /\ run = 1
  /\ flip = 0
  /\ fsStart = fs
  /\ prev = NoPrev

Init ==
  /\ args \in [jobs : 0..MaxJobs, copy_all : BOOLEAN, yes : BOOLEAN]
  /\ inputState \in {"dir", "missing", "file"}
  /\ outputState \in {"dir", "absent", "file", "uncreatable"}
  /\ inDir \in (IF inputState = "dir" THEN SUBSET Universe ELSE {{}})
  /\ fs \in (IF outputState = "dir" THEN OutputTrees(inDir)
                                    ELSE {[d \in Dests(inDir) |-> Absent]})
  /\ env = [f \in inDir |-> "any"]
  /\ InitRun

(***************************************************************************)
(* main, lines 209-223: the two directories.                               *)
(***************************************************************************)
\* A setup that looks at the input path only.
SetupOkInputOnly == inputState = "dir"

SetupOk ==
  /\ inputState = "dir"
  /\ outputState \in {"dir", "absent"}

Validate ==
  /\ pc = "start"
  /\ pc' = IF SetupOk THEN "collect" ELSE "failed"
  /\ outputState' = IF SetupOk THEN "dir" ELSE outputState
  /\ UNCHANGED << args, inputState, inDir, fs, env, files_to_process, task,
                  result, permits, totals, report, invoked, mkdirs, observed,
                  asked, run, flip, fsStart, prev >>

(***************************************************************************)
(* main, lines 238-261: the files kept by the filter of the walk.          *)
(***************************************************************************)
\* A walk that keeps every file whatever copy_all says.
IncludedAlways(f) == TRUE

Included(f) == IF args.copy_all THEN TRUE ELSE IsAccepted(f)

Collect ==
  /\ pc = "collect"
  /\ files_to_process' = {f \in inDir : Included(f)}
  /\ pc' = "confirm"
  /\ UNCHANGED << args, inputState, outputState, inDir, fs, env, task, result,
                  permits, totals, report, invoked, mkdirs, observed, asked,
                  run, flip, fsStart, prev >>

(***************************************************************************)
(* main, lines 327-351: the prompt, then the JoinSet, the semaphore and    *)
(* the counters.                                                           *)
(***************************************************************************)
\* A prompt that is shown unless the yes option is set.
AnswersUnlessYes == IF ~args.yes THEN {"yes", "no", "error"} ELSE {"unasked"}

Answers == IF args.yes THEN {"yes", "no", "error"} ELSE {"unasked"}

AfterAnswer(a) ==
  CASE a = "no" -> "aborted"
    [] a = "error" -> "failed"
    [] OTHER -> "spawn"

Confirm ==
  /\ pc = "confirm"
  /\ \E a \in Answers :
       /\ pc' = AfterAnswer(a)
       /\ asked' = IF a = "unasked" THEN asked ELSE asked + 1
       /\ permits' = IF AfterAnswer(a) = "spawn" THEN args.jobs ELSE permits
  /\ totals' = ZeroTotals
  /\ UNCHANGED << args, inputState, outputState, inDir, fs, env,
                  files_to_process, task, result, report, invoked, mkdirs,
                  observed, run, flip, fsStart, prev >>

(***************************************************************************)
(* main, lines 353-420: one task per file.  The vector is walked in the    *)
(* order the walk produced, which is any order.                            *)
(***************************************************************************)
\* A dispatcher that does not wait for the prompt.
SpawnUngated(f) ==
  /\ f \in files_to_process
  /\ task[f] = "none"
  /\ task' = [task EXCEPT ![f] = "waiting"]
  /\ UNCHANGED << args, inputState, outputState, inDir, fs, env, pc,
                  files_to_process, result, permits, totals, report, invoked,
                  mkdirs, observed, asked, run, flip, fsStart, prev >>

Spawn(f) ==
  /\ pc = "spawn"
  /\ f \in files_to_process
  /\ task[f] = "none"
  /\ task' = [task EXCEPT ![f] = "waiting"]
  /\ UNCHANGED << args, inputState, outputState, inDir, fs, env, pc,
                  files_to_process, result, permits, totals, report, invoked,
                  mkdirs, observed, asked, run, flip, fsStart, prev >>

EndSpawn ==
  /\ pc = "spawn"
  /\ \A f \in files_to_process : task[f] # "none"
  /\ pc' = "join"
  /\ UNCHANGED << args, inputState, outputState, inDir, fs, env,
                  files_to_process, task, result, permits, totals, report,
                  invoked, mkdirs, observed, asked, run, flip, fsStart, prev >>

(***************************************************************************)
(* The spawned task, lines 359-419.                                        *)
(***************************************************************************)
\* let _permit = semaphore.acquire().await.unwrap();
\* A semaphore that never makes a task wait.
CanAcquireAlways == TRUE

CanAcquire == permits > 0

\* An acquire that lets the task through without taking the permit.
AcquireKeepsPermit(f) ==
  /\ f \in inDir
  /\ task[f] = "waiting"
  /\ CanAcquire
  /\ task' = [task EXCEPT ![f] = "running"]
  /\ UNCHANGED << args, inputState, outputState, inDir, fs, env, pc,
                  files_to_process, result, permits, totals, report, invoked,
                  mkdirs, observed, asked, run, flip, fsStart, prev >>

Acquire(f) ==
  /\ f \in inDir
  /\ task[f] = "waiting"
  /\ CanAcquire
  /\ permits' = permits - 1
  /\ task' = [task EXCEPT ![f] = "running"]
  /\ UNCHANGED << args, inputState, outputState, inDir, fs, env, pc,
                  files_to_process, result, totals, report, invoked, mkdirs,
                  observed, asked, run, flip, fsStart, prev >>

\* The branch of lines 371, 392, 414.
\* A routing that skips every file it does not convert, whatever copy_all says.
ClassifyNoCopy(f) == IF IsAccepted(f) THEN "Convert" ELSE "Skip"

Classify(f) ==
  IF IsAccepted(f) THEN "Convert"
  ELSE IF args.copy_all THEN "Copy"
  ELSE "Skip"

Destination(f) == IF Classify(f) = "Convert" THEN ConvertDest(f) ELSE CopyDest(f)

\* An existence test that never finds the destination.
ExistsNever(tree, d) == FALSE

\* output_file_path.exists()
Exists(tree, d) == tree[d] # Absent

\* A task that creates the directory before it looks for the destination.
BeginMkdirFirst(f, tree, e) ==
  CASE Classify(f) = "Skip" -> Res("Skipped")
    [] e = "mkdir" -> Res("Err")
    [] Exists(tree, Destination(f)) -> Res("Skipped")
    [] Classify(f) = "Convert" /\ e = "panic" -> Res("Panic")
    [] OTHER -> NoResult

\* Lines 371-383 and 392-403, up to the converter or the copy: the output
\* of a task that ends there, NoResult for one that goes on.  e is what the
\* environment does to this unit.
Begin(f, tree, e) ==
  CASE Classify(f) = "Skip" -> Res("Skipped")
    [] Exists(tree, Destination(f)) -> Res("Skipped")
    [] e = "mkdir" -> Res("Err")
    [] Classify(f) = "Convert" /\ e = "panic" -> Res("Panic")
    [] OTHER -> NoResult

\* Whether create_dir_all is reached.
ReachesMkdir(f, tree) ==
  Classify(f) # "Skip" /\ ~Exists(tree, Destination(f))

Start(f) ==
  /\ f \in inDir
  /\ task[f] = "running"
  /\ \E e \in EnvChoices(env[f], BeginResults) :
       LET out == Begin(f, fs, e) IN
       /\ mkdirs' = [mkdirs EXCEPT ![f] = IF ReachesMkdir(f, fs) THEN @ + 1 ELSE @]
       /\ invoked' = [invoked EXCEPT
                        ![f] = IF Classify(f) = "Convert" /\ out = NoResult
                               THEN @ + 1 ELSE @]
       /\ IF out = NoResult
          THEN /\ task' = [task EXCEPT
                            ![f] = IF Classify(f) = "Convert" THEN "converting"
                                                              ELSE "copying"]
               /\ UNCHANGED << result, permits >>
          ELSE /\ task' = [task EXCEPT ![f] = "finished"]
               /\ result' = [result EXCEPT ![f] = out]
               /\ permits' = permits + 1
  /\ UNCHANGED << args, inputState, outputState, inDir, fs, env, pc,
                  files_to_process, totals, report, observed, asked, run, flip,
                  fsStart, prev >>

\* convert_image, lines 175-202, once ffmpeg runs.
ConvertOutcome(f, e) ==
  CASE e = "exit" -> Res("Error")
    [] e = "post" -> Res("Error")
    [] OTHER -> Converted(FileTable[f].len, FileTable[f].jxl)

\* ffmpeg writes the destination unless it fails.
\* A convert_image that removes the destination when a later call fails.
ConvertWritesOnSuccess(e) == e = "ok"

ConvertWrites(e) == e # "exit"

ConvertFinish(f) ==
  /\ f \in inDir
  /\ task[f] = "converting"
  /\ \E e \in EnvChoices(env[f], ConvertResults) :
       /\ result' = [result EXCEPT ![f] = ConvertOutcome(f, e)]
       /\ fs' = IF ConvertWrites(e) THEN [fs EXCEPT ![ConvertDest(f)] = Written(f)] ELSE fs
  /\ task' = [task EXCEPT ![f] = "finished"]
  /\ permits' = permits + 1
  /\ UNCHANGED << args, inputState, outputState, inDir, env, pc,
                  files_to_process, totals, report, invoked, mkdirs, observed,
                  asked, run, flip, fsStart, prev >>

\* tokio::fs::copy, lines 410-413.
CopyOutcome(e) == IF e = "copy" THEN Res("Error") ELSE Res("Copied")

CopyFinish(f) ==
  /\ f \in inDir
  /\ task[f] = "copying"
  /\ \E e \in EnvChoices(env[f], CopyResults) :
       /\ result' = [result EXCEPT ![f] = CopyOutcome(e)]
       /\ fs' = IF e # "copy" THEN [fs EXCEPT ![CopyDest(f)] = Written(f)] ELSE fs
  /\ task' = [task EXCEPT ![f] = "finished"]
  /\ permits' = permits + 1
  /\ UNCHANGED << args, inputState, outputState, inDir, env, pc,
                  files_to_process, totals, report, invoked, mkdirs, observed,
                  asked, run, flip, fsStart, prev >>

(***************************************************************************)
(* main, lines 422-473: the join loop.                                     *)
(***************************************************************************)
\* A join loop that drops a panicked task instead of counting it.
ObserveDropsJoinError(t, r) ==
  LET c == [t EXCEPT !.completed_count = @ + 1] IN
  CASE r.kind = "Converted" ->
         [c EXCEPT !.converted_count = @ + 1,
                   !.total_original_size = @ + r.original_size,
                   !.total_converted_size = @ + r.converted_size]
    [] r.kind = "Copied" -> [c EXCEPT !.copied_count = @ + 1]
    [] r.kind = "Skipped" -> [c EXCEPT !.skipped_count = @ + 1]
    [] r.kind = "Panic" -> c
    [] OTHER -> [c EXCEPT !.error_count = @ + 1]

\* A join loop that adds each size to the other total.
ObserveSwapsSizes(t, r) ==
  LET c == [t EXCEPT !.completed_count = @ + 1] IN
  CASE r.kind = "Converted" ->
         [c EXCEPT !.converted_count = @ + 1,
                   !.total_original_size = @ + r.converted_size,
                   !.total_converted_size = @ + r.original_size]
    [] r.kind = "Copied" -> [c EXCEPT !.copied_count = @ + 1]
    [] r.kind = "Skipped" -> [c EXCEPT !.skipped_count = @ + 1]
    [] OTHER -> [c EXCEPT !.error_count = @ + 1]

Observe(t, r) ==
  LET c == [t EXCEPT !.completed_count = @ + 1] IN
  CASE r.kind = "Converted" ->
         [c EXCEPT !.converted_count = @ + 1,
                   !.total_original_size = @ + r.original_size,
                   !.total_converted_size = @ + r.converted_size]
    [] r.kind = "Copied" -> [c EXCEPT !.copied_count = @ + 1]
    [] r.kind = "Skipped" -> [c EXCEPT !.skipped_count = @ + 1]
    [] OTHER -> [c EXCEPT !.error_count = @ + 1]

\* A join loop that leaves the returned output in the set.
JoinNextKeepsOutput(f) ==
  /\ pc = "join"
  /\ f \in inDir
  /\ task[f] = "finished"
  /\ totals' = Observe(totals, result[f])
  /\ observed' = [observed EXCEPT ![f] = @ + 1]
  /\ UNCHANGED << args, inputState, outputState, inDir, fs, env, pc,
                  files_to_process, task, result, permits, report, invoked,
                  mkdirs, asked, run, flip, fsStart, prev >>

JoinNext(f) ==
  /\ pc = "join"
  /\ f \in inDir
  /\ task[f] = "finished"
  /\ totals' = Observe(totals, result[f])
  /\ task' = [task EXCEPT ![f] = "joined"]
  /\ observed' = [observed EXCEPT ![f] = @ + 1]
  /\ UNCHANGED << args, inputState, outputState, inDir, fs, env, pc,
                  files_to_process, result, permits, report, invoked, mkdirs,
                  asked, run, flip, fsStart, prev >>

\* The JoinSet holds every spawned task whose output was not yet returned.
\* A join loop that stops as soon as no output is ready.
JoinSetEmptyNoneReady == \A f \in inDir : task[f] # "finished"

JoinSetEmpty == \A f \in inDir : task[f] \in {"none", "joined"}

\* total_original_size.saturating_sub(total_converted_size)
saturating_sub(a, b) == IF a >= b THEN a - b ELSE 0

(***************************************************************************)
(* main, lines 475-499: the summary.                                       *)
(***************************************************************************)
Summary ==
  /\ pc = "join"
  /\ JoinSetEmpty
  /\ report' = [printed |-> TRUE, totals |-> totals,
                saved |-> saturating_sub(totals.total_original_size,
                                         totals.total_converted_size)]
  /\ pc' = "done"
  /\ UNCHANGED << args, inputState, outputState, inDir, fs, env,
                  files_to_process, task, result, permits, totals, invoked,
                  mkdirs, observed, asked, run, flip, fsStart, prev >>

Next ==
  \/ Validate
  \/ Collect
  \/ Confirm
  \/ \E f \in inDir : Spawn(f)
  \/ EndSpawn
  \/ \E f \in inDir : Acquire(f)
  \/ \E f \in inDir : Start(f)
  \/ \E f \in inDir : ConvertFinish(f)
  \/ \E f \in inDir : CopyFinish(f)
  \/ \E f \in inDir : JoinNext(f)
  \/ Summary

Spec == Init /\ [][Next]_vars

(***************************************************************************)
(* A second run of the program over the same directories and options.      *)
(* Rerun starts it on the output tree the first run left.  Replay starts   *)
(* it on the output tree the first run started from, with the same         *)
(* behaviour of the environment for every file, except that the converter  *)
(* fails for file x when x is not 0.                                       *)
(***************************************************************************)
NewProcess ==
  /\ pc' = "start"
  /\ files_to_process' = {}
  /\ task' = [f \in inDir |-> "none"]
  /\ result' = [f \in inDir |-> NoResult]
  /\ permits' = 0
  /\ totals' = ZeroTotals
  /\ report' = NoReport
  /\ invoked' = [f \in inDir |-> 0]
  /\ mkdirs' = [f \in inDir |-> 0]
  /\ observed' = [f \in inDir |-> 0]
  /\ asked' = 0
  /\ run' = 2

Rerun ==
  /\ pc = "done"
  /\ run = 1
  /\ NewProcess
  /\ prev' = [outcome |-> [f \in inDir |-> Outcome(result[f])],
               totals |-> totals, mode |-> "rerun"]
  /\ fsStart' = fs
  /\ UNCHANGED << args, inputState, outputState, inDir, fs, env, flip >>

Replay(x) ==
  /\ pc = "done"
  /\ run = 1
  /\ \A f \in inDir : env[f] # "any"
  /\ x = 0 \/ (x \in files_to_process /\ IsAccepted(x) /\ env[x] = "ok")
  /\ NewProcess
  /\ prev' = [outcome |-> [f \in inDir |-> Outcome(result[f])],
               totals |-> totals, mode |-> "replay"]
  /\ flip' = x
  /\ env' = IF x = 0 THEN env ELSE [env EXCEPT ![x] = "exit"]
  /\ fs' = fsStart
  /\ UNCHANGED << args, inputState, outputState, inDir, fsStart >>

\* The behaviours of the environment fixed per file for a whole run.
Oracles(files) ==
  {o \in [files -> {"ok", "exit"}] :
     \A f \in files : o[f] = "exit" => IsAccepted(f)}

Init2 ==
  /\ args \in [jobs : 1..MaxJobs, copy_all : BOOLEAN, yes : {FALSE}]
  /\ inputState = "dir"
  /\ outputState = "dir"
  /\ inDir \in SUBSET Universe
  /\ fs \in OutputTrees(inDir)
  /\ env = [f \in inDir |-> "any"]
  /\ InitRun

Next2 ==
  \/ Next
  \/ Rerun

Spec2 == Init2 /\ [][Next2]_vars

InitReplay ==
  /\ args \in [jobs : 1..MaxJobs, copy_all : BOOLEAN, yes : {FALSE}]
  /\ inputState = "dir"
  /\ outputState = "dir"
  /\ inDir \in SUBSET Universe
  /\ fs \in OutputTrees(inDir)
  /\ env \in Oracles(inDir)
  /\ InitRun

NextReplay ==
  \/ Next
  \/ \E x \in {0} \cup inDir : Replay(x)

SpecReplay == InitReplay /\ [][NextReplay]_vars

\* Runs in which, for the files so marked, ffmpeg succeeds and a call after
\* it (metadata, set_file_mtime) fails, followed by a second run.
PostOracles(files) ==
  {o \in [files -> {"ok", "post"}] :
     \A f \in files : o[f] = "post" => IsAccepted(f)}

InitPost ==
  /\ args \in [jobs : 1..MaxJobs, copy_all : BOOLEAN, yes : {FALSE}]
  /\ inputState = "dir"
  /\ outputState = "dir"
  /\ inDir \in SUBSET Universe
  /\ fs \in OutputTrees(inDir)
  /\ env \in PostOracles(inDir)
  /\ InitRun

SpecPost == InitPost /\ [][Next2]_vars

(***************************************************************************)
(* The scenarios of section 8 of the specification, added to the initial   *)
(* states: five convertible files under one permit, and a.png, b.txt and   *)
(* c.png with c.jxl already in the output tree.                            *)
(***************************************************************************)
InitCap1 ==
  /\ args \in [jobs : {1}, copy_all : {FALSE}, yes : {FALSE}]
  /\ inputState = "dir"
  /\ outputState = "dir"
  /\ inDir = Cap1Files
  /\ fs = [d \in Dests(inDir) |-> Absent]
  /\ env = [f \in inDir |-> "any"]
  /\ InitRun

InitScenario ==
  /\ args \in [jobs : 1..MaxJobs, copy_all : BOOLEAN, yes : {FALSE}]
  /\ inputState = "dir"
  /\ outputState = "dir"
  /\ inDir = ScenarioFiles
  /\ fs = [d \in Dests(inDir) |-> IF d = ConvertDest(4) THEN Old ELSE Absent]
  /\ env = [f \in inDir |-> "any"]
  /\ InitRun

SpecCap1 == (Init \/ InitCap1) /\ [][Next]_vars
SpecScenario == (Init \/ InitScenario) /\ [][Next]_vars

\* The tokio runtime runs every task that can run, main included, and every
\* converter call and filesystem operation returns.
Fairness ==
  /\ WF_vars(Validate) /\ WF_vars(Collect) /\ WF_vars(Confirm)
  /\ WF_vars(EndSpawn) /\ WF_vars(Summary)
  /\ \A f \in AllFiles :
       /\ WF_vars(Spawn(f)) /\ WF_vars(Acquire(f)) /\ WF_vars(Start(f))
       /\ WF_vars(ConvertFinish(f)) /\ WF_vars(CopyFinish(f))
       /\ WF_vars(JoinNext(f))

FairSpec == Init /\ [][Next]_vars /\ Fairness

Dispatched == pc \in {"spawn", "join", "done"}
Finished(f) == task[f] \in {"finished", "joined"}
CountSum(t) == t.converted_count + t.copied_count + t.skipped_count + t.error_count

(***************************************************************************)
(* C1.  The number of units that hold a permit and are inside their        *)
(* execution step never exceeds the jobs option; with one permit at most   *)
(* one converter runs at a time, and the run over the five convertible     *)
(* files ends with all five completed.                                     *)
(***************************************************************************)
C1_ConcurrencyCap ==
  /\ Cardinality(Active) <= args.jobs
  /\ args.jobs = 1 => Cardinality(Converting) <= 1
  /\ (pc = "done" /\ inDir = Cap1Files) =>
       /\ totals.completed_count = 5
       /\ \A f \in Cap1Files : task[f] = "joined"

\* One permit, five convertible files: one converter runs, four units wait.
C1_Witness ==
  /\ args.jobs = 1
  /\ inDir = Cap1Files
  /\ Cardinality(Converting) = 1
  /\ Cardinality(Tasks("waiting")) = 4

(***************************************************************************)
(* C2.  When the summary is reached the four outcome counters add up to    *)
(* the number of submitted files, which is also completed_count, whatever  *)
(* the outcomes were (panicked tasks and early error returns included).    *)
(***************************************************************************)
C2_CountsSum ==
  pc = "done" =>
    /\ CountSum(totals) = Cardinality(files_to_process)
    /\ totals.completed_count = Cardinality(files_to_process)
    /\ CountSum(report.totals) = Cardinality(files_to_process)

\* A finished run with a conversion, a panicked task and an early error return.
C2_Witness ==
  /\ pc = "done"
  /\ totals.converted_count >= 1
  /\ \E f \in files_to_process : result[f].kind = "Panic"
  /\ \E f \in files_to_process : result[f].kind = "Err"

(***************************************************************************)
(* C3.  Every submitted file is run by its one unit at most once and its   *)
(* output is returned by the join loop at most once; when the run has      *)
(* finished, the output of every submitted file was returned exactly once  *)
(* and nothing else was.                                                   *)
(***************************************************************************)
C3_ExactlyOnce ==
  /\ \A f \in inDir :
       /\ observed[f] <= 1
       /\ invoked[f] <= 1
       /\ mkdirs[f] <= 1
       /\ observed[f] = 1 <=> task[f] = "joined"
       /\ f \notin files_to_process => task[f] = "none"
  /\ pc = "done" => \A f \in files_to_process : observed[f] = 1

\* A finished run over three submitted files, every output returned once.
C3_Witness ==
  /\ pc = "done"
  /\ Cardinality(files_to_process) = 3
  /\ \A f \in files_to_process : observed[f] = 1

(***************************************************************************)
(* C4.  Once the summary is printed main is done, the printed totals are   *)
(* the counters, which stay as printed, every spawned task has finished    *)
(* and had its output returned, and all permits are back.                  *)
(***************************************************************************)
C4_SummaryAfterAll ==
  report.printed =>
    /\ pc = "done"
    /\ report.totals = totals
    /\ totals.completed_count = Cardinality(files_to_process)
    /\ \A f \in files_to_process : task[f] = "joined" /\ observed[f] = 1
    /\ Active = {} /\ Tasks("waiting") = {}

\* The summary of a run of two files with a conversion.
C4_Witness ==
  /\ report.printed
  /\ report.totals.completed_count = 2
  /\ report.totals.converted_count >= 1

(***************************************************************************)
(* C5.  Once dispatch has begun the run eventually prints its summary,     *)
(* for every value of the jobs option.                                     *)
(***************************************************************************)
C5_AlwaysSummary == (pc = "spawn") ~> (pc = "done")


(***************************************************************************)
(* C6.  Two runs from the same output tree with the same behaviour of the  *)
(* environment, except that the conversion of one file succeeds in the     *)
(* first and fails in the second: every other file has the same outcome    *)
(* in both, and the failed file is counted once as an error.               *)
(***************************************************************************)
IsolationCase ==
  /\ run = 2 /\ prev.mode = "replay" /\ flip # 0
  /\ pc = "done"
  /\ prev.outcome[flip] = "Converted"
  /\ result[flip].kind = "Error"

C6_FailureIsolation ==
  IsolationCase =>
    /\ \A f \in files_to_process \ {flip} : Outcome(result[f]) = prev.outcome[f]
    /\ observed[flip] = 1
    /\ totals.error_count = prev.totals.error_count + 1

(***************************************************************************)
(* C7.  A file routed to Convert or Copy whose destination is in the       *)
(* output tree when the run starts ends Skipped: its unit never creates a  *)
(* directory, never starts the converter or the copy, and leaves the       *)
(* destination as it was.                                                  *)
(***************************************************************************)
C7_ExistingDestSkipped ==
  \A f \in files_to_process :
    Exists(fsStart, Destination(f)) =>
      /\ result[f].kind \in {"None", "Skipped"}
      /\ Finished(f) => result[f].kind = "Skipped"
      /\ task[f] \notin {"converting", "copying"}
      /\ invoked[f] = 0
      /\ mkdirs[f] = 0
      /\ fs[Destination(f)] = fsStart[Destination(f)]

\* A Convert and a Copy, both with their destination present when the run
\* started, both joined as Skipped.
C7_Witness ==
  /\ \E f \in files_to_process :
       /\ Classify(f) = "Convert" /\ Exists(fsStart, Destination(f))
       /\ task[f] = "joined" /\ result[f].kind = "Skipped"
  /\ \E f \in files_to_process :
       /\ Classify(f) = "Copy" /\ Exists(fsStart, Destination(f))
       /\ task[f] = "joined" /\ result[f].kind = "Skipped"

(***************************************************************************)
(* C8.  A second run over the same directories and options converts and    *)
(* copies nothing, every file ending Skipped, and leaves the output tree   *)
(* as the first run left it.                                               *)
(***************************************************************************)
SecondRun == run = 2 /\ prev.mode = "rerun"

C8_Idempotent ==
  (SecondRun /\ pc = "done") =>
    /\ totals.converted_count = 0
    /\ totals.copied_count = 0
    /\ \A f \in files_to_process : result[f].kind = "Skipped"
    /\ fs = fsStart

\* C8 as amended: in the second run every file whose destination the first
\* run left in place ends Skipped and its destination is not touched; the
\* files the first run converted, copied or skipped are among them; and
\* after a first run without errors the second run converts and copies
\* nothing, skips every file and leaves the output tree unchanged.
C8_IdempotentWhereLeft ==
  SecondRun =>
    /\ \A f \in inDir :
         prev.outcome[f] \in {"Converted", "Copied", "Skipped"}
           => Exists(fsStart, Destination(f))
    /\ \A f \in files_to_process :
         Exists(fsStart, Destination(f)) =>
           /\ Finished(f) => result[f].kind = "Skipped"
           /\ invoked[f] = 0
           /\ task[f] \notin {"converting", "copying"}
           /\ fs[Destination(f)] = fsStart[Destination(f)]
    /\ (pc = "done" /\ prev.totals.error_count = 0) =>
         /\ totals.converted_count = 0
         /\ totals.copied_count = 0
         /\ totals.error_count = 0
         /\ totals.skipped_count = prev.totals.completed_count
         /\ fs = fsStart

\* A second run that skipped all the files a first run converted and copied.
C8_Witness ==
  /\ SecondRun /\ pc = "done"
  /\ prev.totals.converted_count >= 1
  /\ prev.totals.copied_count >= 1
  /\ prev.totals.error_count = 0
  /\ totals.skipped_count = prev.totals.completed_count

(***************************************************************************)
(* C9.  Two runs from the same output tree over the same files with the    *)
(* same behaviour of the environment for every file end with the same      *)
(* totals, whatever the order of submission and of completion.             *)
(***************************************************************************)
C9_OrderIndependent ==
  (run = 2 /\ prev.mode = "replay" /\ flip = 0 /\ pc = "done") =>
    totals = prev.totals

(***************************************************************************)
(* C10.  With copy_all off every file of the input directory whose         *)
(* extension is not accepted is counted once as skipped; a.png, b.txt and  *)
(* c.png with c.jxl present end as 1 converted, 2 skipped, 0 copied and    *)
(* 0 errors.                                                               *)
(***************************************************************************)
ScenarioCase ==
  /\ pc = "done"
  /\ ~args.copy_all
  /\ inDir = ScenarioFiles
  /\ fsStart = [d \in Dests(inDir) |-> IF d = ConvertDest(4) THEN Old ELSE Absent]
  /\ result[1].kind = "Converted"

Counts(t) == << t.converted_count, t.skipped_count, t.copied_count, t.error_count >>

C10_NonImagesCountedSkipped ==
  /\ (pc = "done" /\ ~args.copy_all) =>
       \A f \in inDir : ~IsAccepted(f) => observed[f] = 1 /\ result[f].kind = "Skipped"
  /\ ScenarioCase => Counts(totals) = << 1, 2, 0, 0 >>

\* C10 as amended: with copy_all off a file whose extension is not accepted
\* is left out when the files are collected, so it is never submitted and is
\* counted in no total; a.png (converted), b.txt and c.png with c.jxl
\* present end as 1 converted, 1 skipped, 0 copied, 0 errors, 2 processed.
C10_NonImagesNotSubmitted ==
  /\ ~args.copy_all =>
       /\ \A f \in inDir :
            ~IsAccepted(f) =>
              /\ f \notin files_to_process
              /\ task[f] = "none"
              /\ observed[f] = 0
       /\ pc = "done" =>
            totals.completed_count = Cardinality({f \in inDir : IsAccepted(f)})
  /\ ScenarioCase =>
       /\ Counts(totals) = << 1, 1, 0, 0 >>
       /\ totals.completed_count = 2

\* The end of the run over a.png, b.txt and c.png with copy_all off.
C10_Witness == ScenarioCase /\ report.printed

(***************************************************************************)
(* C11.  Every submitted file is routed by its extension and copy_all      *)
(* alone: a file whose lower-cased extension is accepted is converted and  *)
(* nothing else is, its unit tests and writes the relative path with the   *)
(* extension replaced by jxl; any other file is copied when copy_all is    *)
(* on, to the unchanged relative path, and skipped otherwise; with         *)
(* copy_all on a file that is not accepted and whose destination is        *)
(* absent is not skipped: it ends Copied unless the copy itself fails.     *)
(***************************************************************************)
JxlPaths ==
  [f \in AllFiles |->
     [dir |-> FileTable[f].dir, stem |-> FileTable[f].stem, ext |-> "jxl"]]
SamePaths ==
  [f \in AllFiles |->
     [dir |-> FileTable[f].dir, stem |-> FileTable[f].stem,
      ext |-> Concat(FileTable[f].ext)]]
ConvertibleFiles ==
  {f \in AllFiles : to_lowercase(FileTable[f].ext) \in ACCEPTED_EXTENSIONS}
JxlPath(f) == JxlPaths[f]
SamePath(f) == SamePaths[f]
Convertible(f) == f \in ConvertibleFiles

C11_Routing ==
  \A f \in files_to_process :
    /\ (task[f] = "converting" \/ invoked[f] > 0 \/ result[f].kind = "Converted")
         => Convertible(f)
    /\ (task[f] = "copying" \/ result[f].kind = "Copied")
         => (~Convertible(f) /\ args.copy_all)
    /\ \A d \in DOMAIN fs :
         fs[d] = Written(f) => d = (IF Convertible(f) THEN JxlPath(f) ELSE SamePath(f))
    /\ (Finished(f) /\ Convertible(f) /\ Exists(fsStart, JxlPath(f)))
         => result[f].kind = "Skipped"
    /\ (Finished(f) /\ ~Convertible(f) /\ args.copy_all)
         => IF Exists(fsStart, SamePath(f))
            THEN result[f].kind = "Skipped"
            ELSE result[f].kind \in {"Copied", "Error", "Err"}
    /\ (Finished(f) /\ ~Convertible(f) /\ ~args.copy_all)
         => result[f].kind = "Skipped"

\* copy_all on: a.JPG was converted into a.jxl and b.txt copied to b.txt.
C11_Witness ==
  /\ args.copy_all
  /\ {2, 3} \subseteq files_to_process
  /\ result[2].kind = "Converted" /\ fs[JxlPath(2)] = Written(2)
  /\ result[3].kind = "Copied" /\ fs[SamePath(3)] = Written(3)
  /\ ~Exists(fsStart, SamePath(3))

(***************************************************************************)
(* C12.  In every state total_original_size is the sum of original_size   *)
(* and total_converted_size the sum of converted_size over the Converted   *)
(* outputs the join loop has returned so far, these being the length of    *)
(* the source and of the written destination; and a step of the join loop  *)
(* that returns any other output (Copied, Skipped, an error, a panicked    *)
(* task) leaves both totals as they were.                                  *)
(***************************************************************************)
ConvertedObserved ==
  {f \in inDir : task[f] = "joined" /\ result[f].kind = "Converted"}

RECURSIVE SumOriginal(_)
SumOriginal(S) ==
  IF S = {} THEN 0
  ELSE LET f == CHOOSE x \in S : TRUE
       IN result[f].original_size + SumOriginal(S \ {f})

RECURSIVE SumConverted(_)
SumConverted(S) ==
  IF S = {} THEN 0
  ELSE LET f == CHOOSE x \in S : TRUE
       IN result[f].converted_size + SumConverted(S \ {f})

ByteTotalsAreSums ==
  /\ totals.total_original_size = SumOriginal(ConvertedObserved)
  /\ totals.total_converted_size = SumConverted(ConvertedObserved)
  /\ \A f \in ConvertedObserved :
       /\ result[f].original_size = FileTable[f].len
       /\ result[f].converted_size = FileTable[f].jxl

OtherOutcomeKeepsBytes ==
  \A f \in inDir :
    (task[f] = "finished" /\ task'[f] = "joined" /\ result[f].kind # "Converted")
      => /\ totals'.total_original_size = totals.total_original_size
         /\ totals'.total_converted_size = totals.total_converted_size

C12_ByteTotals == []ByteTotalsAreSums /\ [][OtherOutcomeKeepsBytes]_vars

\* The conversion of a.png (3 bytes into 1), a panicked task and a failed
\* copy, all three returned: the totals are those of the conversion.
C12_Witness ==
  /\ ConvertedObserved = {1}
  /\ \E f \in inDir : task[f] = "joined" /\ result[f].kind = "Panic"
  /\ \E f \in inDir : task[f] = "joined" /\ result[f].kind = "Error"
  /\ totals.total_original_size = 3
  /\ totals.total_converted_size = 1

(***************************************************************************)
(* C13.  A task that panicked (Command::spawn failed under unwrap) is      *)
(* returned by the join loop as any other: main does not end in an error   *)
(* because of it, its output is returned at most once, the step that       *)
(* returns it adds one to completed_count and one to error_count and to    *)
(* nothing else and stays in the loop, error_count is the number of        *)
(* failed outputs returned so far, panicked ones included, and at the      *)
(* summary every task, panicked or not, has been returned once.            *)
(***************************************************************************)
Panicked == {f \in inDir : result[f].kind = "Panic"}
FailedObserved ==
  {f \in inDir : task[f] = "joined" /\ Outcome(result[f]) = "Failed"}

PanicCounted ==
  /\ Panicked # {} => pc \in {"spawn", "join", "done"}
  /\ \A f \in Panicked :
       /\ task[f] \in {"finished", "joined"}
       /\ observed[f] = (IF task[f] = "joined" THEN 1 ELSE 0)
  /\ Dispatched => totals.error_count = Cardinality(FailedObserved)
  /\ pc = "done" =>
       /\ \A f \in files_to_process : task[f] = "joined"
       /\ totals.completed_count = Cardinality(files_to_process)

PanicJoinStep ==
  \A f \in Panicked :
    (task[f] = "finished" /\ task'[f] = "joined") =>
      /\ pc = "join" /\ pc' = "join"
      /\ totals' = [totals EXCEPT !.completed_count = @ + 1,
                                   !.error_count = @ + 1]

C13_PanicCounted == []PanicCounted /\ [][PanicJoinStep]_vars

\* A finished run in which the task of a.JPG panicked and a.png was converted.
C13_Witness ==
  /\ pc = "done"
  /\ {1, 2} \subseteq files_to_process
  /\ result[1].kind = "Converted"
  /\ result[2].kind = "Panic"
  /\ totals.error_count = 1
  /\ totals.completed_count >= 2

(***************************************************************************)
(* C14.  When the input path is missing or is no directory, or the output  *)
(* path is a file or cannot be created, the only step main takes is the    *)
(* one that ends it with an error: no file is collected, the prompt is not *)
(* shown, no task is spawned, no permit exists or is taken, the output     *)
(* tree is not touched, the counters stay at zero and no summary is        *)
(* printed.                                                                *)
(***************************************************************************)
SetupFails ==
  \/ inputState \in {"missing", "file"}
  \/ outputState \in {"file", "uncreatable"}

NothingDispatched ==
  /\ files_to_process = {}
  /\ \A f \in inDir : task[f] = "none" /\ invoked[f] = 0 /\ mkdirs[f] = 0
  /\ Active = {} /\ permits = 0
  /\ asked = 0
  /\ fs = fsStart
  /\ totals = ZeroTotals
  /\ ~report.printed

SetupFailureIsFinal ==
  SetupFails => (pc \in {"start", "failed"} /\ NothingDispatched)

SetupFailureStep == (SetupFails /\ pc = "start") => pc' = "failed"

C14_SetupErrorsFatal == []SetupFailureIsFinal /\ [][SetupFailureStep]_vars

\* The run over a directory of files ended in an error because the output
\* directory could not be created.
C14_Witness ==
  /\ pc = "failed"
  /\ inputState = "dir" /\ outputState = "uncreatable"
  /\ inDir # {}
  /\ NothingDispatched

(***************************************************************************)
(* C15.  The prompt is shown at most once in a run, by the one step that   *)
(* leaves the point between the overview and the creation of the JoinSet,  *)
(* when no task was spawned yet; after the answer no, main has returned    *)
(* for good: no task is ever spawned, no converter started, no directory   *)
(* created, the output tree is as it was and no summary is printed.        *)
(***************************************************************************)
NothingLaunched ==
  /\ \A f \in inDir : task[f] = "none" /\ invoked[f] = 0 /\ mkdirs[f] = 0
  /\ Active = {}
  /\ fs = fsStart

GateOnce ==
  /\ asked <= 1
  /\ pc \in {"start", "collect", "confirm"} => (asked = 0 /\ NothingLaunched)
  /\ pc = "aborted" =>
       /\ asked = 1
       /\ NothingLaunched
       /\ ~report.printed

GateStep ==
  /\ asked' # asked =>
       /\ pc = "confirm" /\ pc' \in {"spawn", "aborted", "failed"}
       /\ asked = 0 /\ asked' = 1
       /\ NothingLaunched
  /\ pc = "aborted" => pc' = "aborted"

C15_GateBeforeDispatch == []GateOnce /\ [][GateStep]_vars

\* The answer was no with two files collected.
C15_Witness ==
  /\ pc = "aborted"
  /\ asked = 1
  /\ Cardinality(files_to_process) = 2
  /\ NothingLaunched

(***************************************************************************)
(* C16.  Whatever fails in a task (starting the converter, the converter   *)
(* itself, the metadata and timestamp calls, create_dir_all, the copy),    *)
(* the task ends by returning Ok(ProcessResult): it never panics and       *)
(* never returns Err.                                                      *)
(***************************************************************************)
C16_ErrorsAreOutcomes ==
  \A f \in inDir :
    Finished(f) => result[f].kind \in {"Converted", "Copied", "Skipped", "Error"}

(***************************************************************************)
(* C17.  From the creation of the semaphore on, the free permits and the   *)
(* tasks that hold one add up to the jobs option.  A task takes its one    *)
(* permit in its first step, before it looks at the file, does everything  *)
(* else while it holds the permit, gives it back in the step that ends it, *)
(* whatever its output (Converted, Copied, Skipped, an error, a panic),    *)
(* and never takes one again; at the summary every permit is free.         *)
(***************************************************************************)
PermitsAddUp ==
  /\ permits >= 0
  /\ Active \subseteq files_to_process
  /\ Dispatched => permits + Cardinality(Active) = args.jobs
  /\ ~Dispatched => Active = {}
  /\ pc = "done" => (permits = args.jobs /\ Active = {})

PermitStep ==
  \A f \in inDir :
    /\ (task[f] = "waiting" /\ task'[f] # "waiting")
         => (task'[f] = "running" /\ permits' = permits - 1)
    /\ (f \in Active /\ task'[f] = "finished") => permits' = permits + 1
    /\ (f \in Active /\ task'[f] # "finished") => (task'[f] # "waiting" /\ f \in Active')
    /\ Finished(f) => Finished(f)'
    /\ (invoked'[f] # invoked[f] \/ mkdirs'[f] # mkdirs[f] \/ result'[f] # result[f])
         => f \in Active

C17_OnePermitPerUnit == []PermitsAddUp /\ [][PermitStep]_vars

\* A finished run with two permits in which one task panicked, one skipped
\* its file and one converted or copied it: both permits are free.
C17_Witness ==
  /\ pc = "done"
  /\ args.jobs = 2 /\ permits = 2
  /\ \E f \in files_to_process : result[f].kind = "Panic"
  /\ \E f \in files_to_process : result[f].kind = "Skipped"
  /\ \E f \in files_to_process : result[f].kind \in {"Converted", "Copied"}

(***************************************************************************)
(* C18.  In one run at most one task starts the converter for any one      *)
(* destination, also when two submitted files derive the same destination  *)
(* and there are two permits or more.                                      *)
(***************************************************************************)
ConvertersFor(d) ==
  {f \in files_to_process : IsAccepted(f) /\ ConvertDest(f) = d /\ invoked[f] > 0}

C18_OneConverterPerDest ==
  \A d \in DOMAIN fs : Cardinality(ConvertersFor(d)) <= 1

(***************************************************************************)
(* C19.  When ffmpeg succeeds for a file and a call after it (metadata,    *)
(* set_file_mtime) fails, the task returns an error, which adds nothing    *)
(* to the byte totals, and the destination ffmpeg wrote stays in the       *)
(* output tree; a second run over the same directories skips that file     *)
(* without starting the converter or creating a directory.                 *)
(***************************************************************************)
PostFailed(f) ==
  /\ env[f] = "post"
  /\ Finished(f)
  /\ result[f].kind = "Error"

C19_PostFailureSkippedLater ==
  \A f \in files_to_process :
    /\ (run = 1 /\ PostFailed(f)) =>
         /\ Exists(fs, JxlPath(f))
         /\ result[f].original_size = 0 /\ result[f].converted_size = 0
         /\ f \notin ConvertedObserved
         /\ totals.total_original_size = SumOriginal(ConvertedObserved)
         /\ totals.total_converted_size = SumConverted(ConvertedObserved)
    /\ (SecondRun /\ env[f] = "post" /\ prev.outcome[f] = "Failed") =>
         /\ Exists(fsStart, JxlPath(f)) /\ Exists(fs, JxlPath(f))
         /\ invoked[f] = 0 /\ mkdirs[f] = 0
         /\ task[f] # "converting"
         /\ Finished(f) => result[f].kind = "Skipped"

\* The second run has ended: it skipped a.png, whose conversion succeeded
\* and then failed on the timestamp in the first run, and the first run
\* counted an error and converted nothing.
C19_Witness ==
  /\ SecondRun /\ pc = "done"
  /\ 1 \in files_to_process /\ 2 \notin files_to_process
  /\ env[1] = "post"
  /\ prev.outcome[1] = "Failed"
  /\ prev.totals.error_count = 1
  /\ prev.totals.total_original_size = 0
  /\ result[1].kind = "Skipped"
  /\ fs[JxlPath(1)] = Written(1)

(***************************************************************************)
(* C20.  The prompt is shown exactly when the yes option is set: with the  *)
(* option set main shows it once before it goes on to the spawn loop,      *)
(* returns or fails; with the option not set main goes straight on to the  *)
(* spawn loop, never shows the prompt and never aborts.                    *)
(***************************************************************************)
PastPrompt == pc \in {"spawn", "join", "done", "aborted"}

GateWhenYes ==
  /\ asked > 0 => args.yes
  /\ (args.yes /\ PastPrompt) => asked = 1
  /\ ~args.yes => (asked = 0 /\ pc # "aborted")

GateWhenYesStep ==
  (pc = "confirm" /\ pc' # "confirm") =>
    IF args.yes THEN asked' = asked + 1 /\ pc' \in {"spawn", "aborted", "failed"}
                ELSE asked' = asked /\ pc' = "spawn"

C20_GateWhenYesSet == []GateWhenYes /\ [][GateWhenYesStep]_vars

\* With the yes option set the prompt was shown and, on the answer yes, a
\* converter was started.
C20_Witness ==
  /\ args.yes
  /\ asked = 1
  /\ Converting # {}

====
